---- MODULE Spec2Model ----
(***************************************************************************)
(* MCUtil: the backup catalog of src/backup.py (BackupManager).            *)
(*                                                                         *)
(* The backup directory is modelled as a value `disk`:                     *)
(*   root     backup_dir exists                                            *)
(*   dirs     the date directories (buckets) under backup_dir; a bucket    *)
(*            key YYYY-MM-DD is modelled by its day number, the names sort *)
(*            as the days do                                               *)
(*   meta     per bucket, the file backups.json: whether it exists, the    *)
(*            list under "backups", and what kind of content it has: "ok", *)
(*            a document with that list; "garbage", text that is no JSON;  *)
(*            "no_key", a JSON object without "backups"; "not_dict", JSON  *)
(*            that is no object                                            *)
(*   zips     per bucket, the names of the *.zip files present             *)
(*   partial  per bucket, the zip files whose write did not complete       *)
(*   others   per bucket, the files that are neither *.zip nor backups.json*)
(* The server directory is modelled as `tree`, the state of each file of   *)
(* Paths, and one create_backup call that is followed file by file as      *)
(* `run` (specification SpecBuild).                                        *)
(* The server's screen session and one call of start, stop, restart,       *)
(* watch or send_command, followed command by command, are `srv`           *)
(* (specification SpecServer).                                             *)
(* A BackupScheduler and its loop are `sch` (specifications SpecSched and   *)
(* SpecSchedLive); one call of screen_exists on a session listing is       *)
(* `probe` (specification SpecProbe).                                      *)
(* File names and identifiers are sequences of one-character strings, so   *)
(* that formatting and substring matching are computed, not assumed.       *)
(***************************************************************************)
EXTENDS Integers, Sequences, FiniteSets, TLC

\* ---------------------------------------------------------------- bounds
\* operations and environment events in one run
MaxSteps == 5
MaxDay == 3
MaxRetention == 2
\* interventions by hand in one run
MaxManual == 1
\* characters of a path given to _should_exclude
MaxPathLen == 3
\* polls of wait_for_condition before stop() gives up waiting (30 one-second
\* polls in the program) and before start() does (10)
StopTimeout == 2
StartTimeout == 2
\* turns of the watchdog loop that are followed
MaxTicks == 2
\* backups made before a server method is called, in SpecCli
MaxCliBackups == 2
\* characters of a text given to send_command
MaxTextLen == 3
\* one-second sleep slices in a turn of the scheduler loop (60 in the program)
SlicesPerTick == 2
\* the backup interval is a whole number of minutes, here of turns' sleeps
MaxIntervalTicks == 2
\* seconds the scheduler's clock is followed for
MaxNow == 8
\* seconds a scheduled backup may take
MaxBackupSeconds == 1
\* start() calls of one starter when two starters run at once
MaxStarts == 2

Days == 1..MaxDay
Retentions == (-1)..MaxRetention

VARIABLES disk, today, retention, steps, manual, issued, last, tree, run,
          excl, srv, sch, probe, jobs, twin

vars ==
    <<disk, today, retention, steps, manual, issued, last, tree, run, excl,
      srv, sch, probe, jobs, twin>>

\* ---------------------------------------------------------------- text
Zip == <<".", "z", "i", "p">>

Digit(k) ==
    CASE k = 0 -> "0" [] k = 1 -> "1" [] k = 2 -> "2" [] k = 3 -> "3"
      [] k = 4 -> "4" [] k = 5 -> "5" [] k = 6 -> "6" [] k = 7 -> "7"
      [] k = 8 -> "8" [] OTHER -> "9"

RECURSIVE Decimal(_)
Decimal(n) ==
    IF n < 10 THEN <<Digit(n)>> ELSE Decimal(n \div 10) \o <<Digit(n % 10)>>

\* f"{backup_number:03d}"
Fmt03(n) ==
    LET s == Decimal(n)
    IN  IF Len(s) >= 3 THEN s
        ELSE IF Len(s) = 2 THEN <<"0">> \o s
        ELSE <<"0", "0">> \o s

\* the characters of a backup type
TypeChars(t) ==
    CASE t = "quick" -> <<"q", "u", "i", "c", "k">>
      [] t = "full" -> <<"f", "u", "l", "l">>
      [] OTHER -> <<"b", "o", "g", "u", "s">>

\* Python's `s in t` on strings
IsSubstring(s, t) ==
    \E i \in 0..(Len(t) - Len(s)) : SubSeq(t, i + 1, i + Len(s)) = s

BACKUP_TYPES == {"quick", "full"}

\* inputs of create_backup and delete_backup
\* <<backup_type, custom_name>>; <<>> is the custom_name None (or "")
CreateInputs ==
    { <<"quick", <<>>>>, <<"quick", <<"W", "w">>>>, <<"bogus", <<>>>> }
Identifiers ==
    { <<"W", "w">> \o Zip, <<"W", "w">>, <<"w">>, <<"w", "w">>,
      <<"0", "0", "1">>, <<"0", "0", "2">>, <<"k", ".", "z">>, Zip }
\* what the environment does to one create_backup call
CreateEnvs == {"ok", "no_server_dir", "open_failed", "write_failed", "vanished"}
\* the archive is written and closed; what may still fail is the metadata
ArchiveWritten == {"ok", "save_open_failed", "save_write_failed"}
OrphanZip == <<"o", "l", "d">> \o Zip
OtherNames == {"notes.txt"}

\* ---------------------------------------------------------------- server files
\* the files of the server directory, by their path relative to it
LevelDat ==
    <<"w", "o", "r", "l", "d", "/", "l", "e", "v", "e", "l", ".", "d",
    "a", "t">>

ServerProperties ==
    <<"s", "e", "r", "v", "e", "r", ".", "p", "r", "o", "p", "e", "r",
    "t", "i", "e", "s">>

LatestLog ==
    <<"l", "o", "g", "s", "/", "l", "a", "t", "e", "s", "t", ".", "l",
    "o", "g">>

EulaTxt ==
    <<"e", "u", "l", "a", ".", "t", "x", "t">>

QUICK_INCLUDE ==
    <<
      <<"w", "o", "r", "l", "d">>,
      <<"w", "o", "r", "l", "d", "_", "n", "e", "t", "h", "e", "r">>,
      <<"w", "o", "r", "l", "d", "_", "t", "h", "e", "_", "e", "n", "d">>,
      <<"s", "e", "r", "v", "e", "r", ".", "p", "r", "o", "p", "e", "r",
      "t", "i", "e", "s">>,
      <<"o", "p", "s", ".", "j", "s", "o", "n">>,
      <<"w", "h", "i", "t", "e", "l", "i", "s", "t", ".", "j", "s", "o",
      "n">>,
      <<"b", "a", "n", "n", "e", "d", "-", "p", "l", "a", "y", "e", "r",
      "s", ".", "j", "s", "o", "n">>,
      <<"b", "a", "n", "n", "e", "d", "-", "i", "p", "s", ".", "j", "s",
      "o", "n">> >>

FULL_EXCLUDE ==
    {
      <<"l", "o", "g", "s">>,
      <<"c", "r", "a", "s", "h", "-", "r", "e", "p", "o", "r", "t", "s">>,
      <<"*", ".", "l", "o", "g">>,
      <<"b", "a", "c", "k", "u", "p", "_", "s", "c", "h", "e", "d", "u",
      "l", "e", "r", ".", "p", "y">>,
      <<"_", "_", "p", "y", "c", "a", "c", "h", "e", "_", "_">> }

Paths == {LevelDat, ServerProperties, LatestLog, EulaTxt}

\* the order in which a walk of the server directory meets them
WalkOrder == <<EulaTxt, LatestLog, ServerProperties, LevelDat>>

\* a file is there and readable, there and not readable, or not there
FileStates == {"file", "unreadable", "absent"}

\* str.endswith
EndsWith(t, s) ==
    Len(s) <= Len(t) /\ SubSeq(t, Len(t) - Len(s) + 1, Len(t)) = s

\* a slip: only a wildcard at the end of the pattern is removed
strip_trailing_star(pattern) ==
    IF pattern # <<>> /\ pattern[Len(pattern)] = "*"
    THEN SubSeq(pattern, 1, Len(pattern) - 1) ELSE pattern

\* pattern.replace("*", "")
WithoutStars(pattern) == SelectSeq(pattern, LAMBDA c : c # "*")

should_exclude(path, exclude_patterns) ==
    \E pattern \in exclude_patterns :
        \/ IsSubstring(pattern, path)
        \/ EndsWith(path, WithoutStars(pattern))

\* Path.is_file of server_dir / name
is_file(tr, name) == name \in Paths /\ tr[name] # "absent"

\* a slip: a named directory is not walked
files_under_nothing(tr, name) == <<>>

\* the files below the directory server_dir / name, as rglob("*") lists them
files_under(tr, name) ==
    SelectSeq(WalkOrder, LAMBDA p :
        /\ Len(p) > Len(name) + 1
        /\ SubSeq(p, 1, Len(name) + 1) = name \o <<"/">>
        /\ tr[p] # "absent")

\* server_dir.rglob("*"), the files it lists
all_files(tr) == SelectSeq(WalkOrder, LAMBDA p : tr[p] # "absent")

\* ---------------------------------------------------------------- disk
NoMeta == [exists |-> FALSE, backups |-> <<>>, kind |-> "ok"]

\* contents of backups.json that are no document with a list of backups
BadKinds == {"garbage", "no_key", "not_dict"}

EmptyDisk ==
    [ root |-> FALSE, dirs |-> {},
      meta |-> [d \in Days |-> NoMeta],
      zips |-> [d \in Days |-> {}],
      partial |-> [d \in Days |-> {}],
      others |-> [d \in Days |-> {}] ]

\* date_dir.mkdir(parents=True, exist_ok=True)
mkdir(dk, d) == [dk EXCEPT !.root = TRUE, !.dirs = @ \cup {d}]

\* shutil.rmtree(old_dir)
rmtree(dk, d) ==
    [dk EXCEPT !.dirs = @ \ {d}, !.meta[d] = NoMeta, !.zips[d] = {},
               !.partial[d] = {}, !.others[d] = {}]

\* what _load_metadata returns: a document with a list ("list": for a
\* missing file, for text that json.load rejects, and for a well-formed
\* file), or the parsed content as it is
loads_as(dk, d) ==
    IF ~dk.meta[d].exists \/ dk.meta[d].kind \in {"ok", "garbage"} THEN "list"
    ELSE dk.meta[d].kind

\* the list under "backups" of the loaded document
load_metadata(dk, d) ==
    IF ~dk.meta[d].exists \/ dk.meta[d].kind # "ok" THEN <<>>
    ELSE dk.meta[d].backups

save_metadata(dk, d, backups) ==
    IF d \in dk.dirs
    THEN [dk EXCEPT !.meta[d] =
                        [exists |-> TRUE, backups |-> backups, kind |-> "ok"]]
    ELSE dk

\* a slip: IOError is not caught in _save_metadata
save_raises_uncaught(env) == env \in {"save_open_failed", "save_write_failed"}

\* except IOError in _save_metadata: a warning is printed, nothing is raised
save_raises(env) == FALSE

\* _save_metadata when the write may fail: open(metadata_file, 'w') fails
\* and the file stays as it was, or the file is truncated and the write of
\* the document does not complete
save_metadata_env(dk, d, backups, env) ==
    IF env = "save_open_failed" THEN dk
    ELSE IF env = "save_write_failed"
    THEN IF d \in dk.dirs
         THEN [dk EXCEPT !.meta[d] = [exists |-> TRUE, backups |-> <<>>,
                                      kind |-> "garbage"]]
         ELSE dk
    ELSE save_metadata(dk, d, backups)

RECURSIVE py_max(_)
py_max(s) ==
    IF Len(s) = 1 THEN s[1]
    ELSE LET m == py_max(Tail(s)) IN IF s[1] > m THEN s[1] ELSE m

\* a slip: the count of the records instead of their largest number
next_number_by_count(dk, d) == Len(load_metadata(dk, d)) + 1

\* a slip: the number is taken from the archive files of the bucket
next_number_from_files(dk, d) == Cardinality(dk.zips[d]) + 1

get_next_backup_number(dk, d) ==
    LET backups == load_metadata(dk, d)
    IN  IF backups = <<>> THEN 1
        ELSE py_max([i \in 1..Len(backups) |-> backups[i].number]) + 1

backup_filename(backup_number, backup_type, custom_name) ==
    IF custom_name # <<>> THEN custom_name \o Zip
    ELSE <<"b", "a", "c", "k", "u", "p", "_">> \o Fmt03(backup_number)
           \o <<"_">> \o TypeChars(backup_type) \o Zip

\* zipfile.ZipFile(backup_path, 'w'): the file is created or truncated, and
\* is complete only once the archive is closed
write_archive(dk, d, f, complete) ==
    [dk EXCEPT !.zips[d] = @ \cup {f},
               !.partial[d] = IF complete THEN @ \ {f} ELSE @ \cup {f}]

\* Path.unlink, FileNotFoundError tolerated
unlink(dk, d, f) ==
    [dk EXCEPT !.zips[d] = @ \ {f}, !.partial[d] = @ \ {f}]

\* sorted(..., reverse=True) of bucket names
RECURSIVE sorted_desc(_)
sorted_desc(S) ==
    IF S = {} THEN <<>>
    ELSE LET m == CHOOSE x \in S : \A y \in S : y <= x
         IN  <<m>> \o sorted_desc(S \ {m})

RECURSIVE rmtree_each(_, _)
rmtree_each(dk, ds) ==
    IF ds = <<>> THEN dk ELSE rmtree_each(rmtree(dk, Head(ds)), Tail(ds))

\* a slip: date_dirs[retention - 1:], one bucket too many is removed
cleanup_one_too_many(dk, r) ==
    IF r <= 0 THEN dk
    ELSE LET date_dirs == sorted_desc(dk.dirs)
         IN  IF Len(date_dirs) <= r THEN dk
             ELSE rmtree_each(dk, SubSeq(date_dirs, r, Len(date_dirs)))

\* a slip: date_dirs[retention + 1:], one bucket too many is kept
cleanup_one_too_few(dk, r) ==
    IF r <= 0 THEN dk
    ELSE LET date_dirs == sorted_desc(dk.dirs)
         IN  IF Len(date_dirs) <= r THEN dk
             ELSE rmtree_each(dk, SubSeq(date_dirs, r + 2, Len(date_dirs)))

\* a slip: one run removes only the oldest bucket beyond the limit
cleanup_oldest_only(dk, r) ==
    IF r <= 0 THEN dk
    ELSE LET date_dirs == sorted_desc(dk.dirs)
         IN  IF Len(date_dirs) <= r THEN dk
             ELSE rmtree(dk, date_dirs[Len(date_dirs)])

cleanup_old_backups(dk, r) ==
    IF r <= 0 THEN dk
    ELSE LET date_dirs == sorted_desc(dk.dirs)
         IN  IF Len(date_dirs) <= r THEN dk
             ELSE rmtree_each(dk, SubSeq(date_dirs, r + 1, Len(date_dirs)))

\* a slip: the records are listed without the test that the file exists
listed_unverified(dk, d) ==
    LET kept == load_metadata(dk, d)
    IN  [i \in 1..Len(kept) |-> [date |-> d, info |-> kept[i]]]

\* the records of one bucket whose archive file exists, in stored order
listed_of(dk, d) ==
    LET kept == SelectSeq(load_metadata(dk, d),
                          LAMBDA b : b.filename \in dk.zips[d])
    IN  [i \in 1..Len(kept) |-> [date |-> d, info |-> kept[i]]]

RECURSIVE list_over(_, _)
list_over(dk, ds) ==
    IF ds = <<>> THEN <<>>
    ELSE listed_of(dk, Head(ds)) \o list_over(dk, Tail(ds))

list_backups(dk) ==
    IF ~dk.root THEN <<>> ELSE list_over(dk, sorted_desc(dk.dirs))

\* metadata.get("backups", []) raises when the loaded content is no object
list_raises(dk) == \E d \in dk.dirs : loads_as(dk, d) = "not_dict"

\* the test of delete_backup's search loop
matches(filename, backup_identifier) ==
    \/ filename = backup_identifier
    \/ filename = backup_identifier \o Zip
    \/ IsSubstring(backup_identifier, filename)

\* a slip: the loop without its break, the last match wins
last_match(backups, backup_identifier) ==
    LET hits == {i \in 1..Len(backups) :
                    matches(backups[i].info.filename, backup_identifier)}
    IN  IF hits = {} THEN 0 ELSE CHOOSE i \in hits : \A j \in hits : j <= i

\* index of the first match in the listing, 0 when there is none
first_match(backups, backup_identifier) ==
    LET hits == {i \in 1..Len(backups) :
                    matches(backups[i].info.filename, backup_identifier)}
    IN  IF hits = {} THEN 0 ELSE CHOOSE i \in hits : \A j \in hits : i <= j

\* a slip: the archive is removed and the metadata is left as it was
delete_file_only(dk, d, f) == unlink(dk, d, f)

\* a slip: the bucket is cleared without looking for other archives
delete_ignoring_zips(dk, d, f) ==
    LET d1 == unlink(dk, d, f)
        left == SelectSeq(load_metadata(d1, d), LAMBDA b : b.filename # f)
        d2 == save_metadata(d1, d, left)
    IN  IF left = <<>>
        THEN LET d3 == [d2 EXCEPT !.meta[d] = NoMeta]
             IN  IF d3.others[d] = {} /\ d3.zips[d] = {}
                 THEN [d3 EXCEPT !.dirs = @ \ {d}] ELSE d3
        ELSE d2

\* delete_backup once the target is found
delete_target(dk, d, f) ==
    LET d1 == unlink(dk, d, f)
        left == SelectSeq(load_metadata(d1, d), LAMBDA b : b.filename # f)
        d2 == save_metadata(d1, d, left)
    IN  IF left = <<>> /\ d2.zips[d] = {}
        THEN LET d3 == [d2 EXCEPT !.meta[d] = NoMeta]
             IN  IF d3.others[d] = {} THEN [d3 EXCEPT !.dirs = @ \ {d}] ELSE d3
        ELSE d2

\* the operation that ran last: whether it reported success, the error it
\* printed, and a number (create_backup: backup_number, delete_backup: the
\* number of the target, cleanup: removed_count); an event of the
\* environment resets it
NoLast == [op |-> "none", ok |-> FALSE, n |-> 0, msg |-> ""]

\* one create_backup call followed file by file: where it is (pc), the
\* names and files still to visit in the current pass (queue, sub), whether
\* the named file at the head of queue was counted and its size is still to
\* be read (pending), the counters, and the members of the archive
IdleRun ==
    [ pc |-> "idle", type |-> "", number |-> 0, filename |-> <<>>,
      queue |-> <<>>, sub |-> <<>>, pending |-> FALSE,
      file_count |-> 0, files_added |-> 0, entries |-> {}, result |-> "none" ]

\* one call of _should_exclude: its arguments and what it returned
NoCall == [path |-> <<>>, patterns |-> {}, called |-> FALSE, result |-> FALSE]

\* the screen session (present), the server jar (jar), and one call of a
\* MinecraftServer method: which one (call), where it is (pc), the polls
\* done by the current wait_for_condition (elapsed), the commands run and
\* the probes made with their answers (events), what stop() returned inside
\* restart() (stopped) and what the call returned (result).  In watch(),
\* events are those of the current turn of the loop, ticks counts the turns
\* begun after the first, and interrupted says that KeyboardInterrupt ended
\* the loop.  In send_command(), text is the command given and written is
\* what has been put into the session's input, one entry per write
IdleServer ==
    [ present |-> FALSE, jar |-> TRUE, call |-> "none", pc |-> "idle",
      elapsed |-> 0, events |-> <<>>, stopped |-> "none", result |-> "none",
      ticks |-> 0, interrupted |-> FALSE, text |-> <<>>, written |-> <<>> ]

\* a BackupScheduler: the running flag, last_backup (0 for None), the
\* interval and the clock in seconds, where start() is (pc), the one-second
\* slices slept in the current turn of the loop (slices), whether a backup is
\* being written (writing) and whether it is the initial one (initial), and
\* what is remembered about the run: the time the last backup was begun
\* (began_at), how the last one ended (outcome), whether a shutdown signal has
\* been handled (signalled), the slices slept since (slept_after) and whether
\* a backup was begun after it (begun_after), and whether a backup was begun
\* while another was being written (overlap)
IdleScheduler ==
    [ running |-> FALSE, last_backup |-> 0, interval |-> 0, now |-> 1,
      pc |-> "new", slices |-> 0, writing |-> FALSE, initial |-> FALSE,
      began_at |-> 0, outcome |-> "none", signalled |-> FALSE,
      slept_after |-> 0, begun_after |-> FALSE, overlap |-> FALSE ]

\* one call of screen_exists: the name asked for, the names of the sessions
\* that exist, how the query "screen -ls" goes, the answer, and whether the
\* call raised instead of answering
NoProbe ==
    [ name |-> <<>>, sessions |-> {}, query |-> "ok", called |-> FALSE,
      result |-> FALSE, raised |-> FALSE ]

\* the callers of two create_backup calls that may run at the same time
Callers == {"manual", "scheduler"}

\* one create_backup call of a caller, followed step by step: where it is
\* (pc), the backup_number it read, its backup_filename, the document it
\* loaded for the append (loaded), and what it returned
IdleJob ==
    [ pc |-> "idle", number |-> 0, filename |-> <<>>, loaded |-> <<>>,
      result |-> "none" ]

NoJobs == [c \in Callers |-> IdleJob]

\* who calls start(): the watch() loop and the start command
Starters == {"watchdog", "manual"}

\* one start() call of a starter: where it is (pc), the polls done by its
\* wait_for_condition (elapsed), the calls begun (calls) and what the last
\* one returned
IdleStart == [pc |-> "idle", elapsed |-> 0, calls |-> 0, result |-> "none"]

\* the sessions that carry the configured name (sessions) and the two
\* starters
NoTwin == [sessions |-> 0, of |-> [c \in Starters |-> IdleStart]]

\* ---------------------------------------------------------------- state
Init ==
    /\ disk = EmptyDisk
    /\ today = 1
    /\ retention \in Retentions
    /\ steps = 0
    /\ manual = 0
    /\ issued = {}
    /\ last = NoLast
    /\ tree = [p \in Paths |-> "file"]
    /\ run = IdleRun
    /\ excl = NoCall
    /\ srv = IdleServer
    /\ sch = IdleScheduler
    /\ probe = NoProbe
    /\ jobs = NoJobs
    /\ twin = NoTwin

\* the start of a pass over the server directory: everything mode walks the
\* whole directory, named-include mode goes through the include list
pass_start(rn, tr, pc) ==
    [rn EXCEPT !.pc = pc, !.pending = FALSE,
               !.queue = IF rn.type = "full" THEN <<>> ELSE QUICK_INCLUDE,
               !.sub = IF rn.type = "full" THEN all_files(tr) ELSE <<>>]

\* one file of a walk or one name of the include list: is_file, then stat
\* and zipf.write with OSError caught
add_step(rn, tr) ==
    IF rn.sub # <<>>
    THEN LET p == Head(rn.sub)
             added == /\ tr[p] = "file"
                      /\ rn.type = "full" => ~should_exclude(p, FULL_EXCLUDE)
         IN  [rn EXCEPT !.sub = Tail(@),
                        !.files_added = IF added THEN @ + 1 ELSE @,
                        !.entries = IF added THEN @ \cup {p} ELSE @]
    ELSE LET item_name == Head(rn.queue)
         IN  IF is_file(tr, item_name)
             THEN LET added == tr[item_name] = "file"
                  IN  [rn EXCEPT !.queue = Tail(@),
                                 !.files_added = IF added THEN @ + 1 ELSE @,
                                 !.entries = IF added THEN @ \cup {item_name}
                                             ELSE @]
             ELSE [rn EXCEPT !.queue = Tail(@),
                             !.sub = files_under(tr, item_name)]

\* the write pass run to its end over a server directory that stays as it
\* is
RECURSIVE add_all(_, _)
add_all(rn, tr) ==
    IF rn.sub = <<>> /\ rn.queue = <<>> THEN rn
    ELSE add_all(add_step(rn, tr), tr)

build_archive(tr, backup_type) ==
    add_all(pass_start([IdleRun EXCEPT !.type = backup_type], tr, "write"), tr)

\* a slip: the partial backup is left where it is
keep_partial(dk, d, f) == dk

\* except Exception: the partial backup is unlinked
unlink_partial(dk, d, f) == unlink(dk, d, f)

\* the part of create_backup after the two precondition checks; env is what
\* happens to the archive: written ("ok"), not opened, failed while being
\* written, or removed by someone else before the exists() test
create_run(dk, d, backup_type, custom_name, env, r, tr) ==
    LET d0 == mkdir(dk, d)
        backup_number == get_next_backup_number(d0, d)
        f == backup_filename(backup_number, backup_type, custom_name)
    IN  IF env \in ArchiveWritten
        THEN LET d1 == write_archive(d0, d, f, TRUE)
                 rec == [number |-> backup_number, filename |-> f,
                         type |-> backup_type,
                         files_count |->
                             build_archive(tr, backup_type).files_added]
                 d2 == save_metadata_env(
                           d1, d, Append(load_metadata(d1, d), rec), env)
             IN  cleanup_old_backups(d2, r)
        ELSE IF env = "open_failed" THEN unlink_partial(d0, d, f)
        ELSE IF env = "write_failed"
        THEN unlink_partial(write_archive(d0, d, f, FALSE), d, f)
        ELSE unlink(write_archive(d0, d, f, TRUE), d, f)

create_backup(backup_type, custom_name, env) ==
    /\ IF backup_type \notin BACKUP_TYPES
       THEN /\ disk' = disk
            /\ issued' = issued
            /\ last' = [op |-> "create", ok |-> FALSE, n |-> 0,
                        msg |-> "Invalid backup type"]
       ELSE IF env = "no_server_dir"
       THEN /\ disk' = disk
            /\ issued' = issued
            /\ last' = [op |-> "create", ok |-> FALSE, n |-> 0,
                        msg |-> "Server directory not found"]
       ELSE IF loads_as(disk, today) # "list"
       THEN \* metadata["backups"] in _get_next_backup_number raises
            /\ disk' = mkdir(disk, today)
            /\ issued' = issued
            /\ last' = [op |-> "create", ok |-> FALSE, n |-> 0,
                        msg |-> IF loads_as(disk, today) = "no_key"
                                THEN "KeyError" ELSE "TypeError"]
       ELSE LET n == get_next_backup_number(mkdir(disk, today), today)
                ok == env \in ArchiveWritten /\ ~save_raises(env)
            IN  /\ disk' = create_run(disk, today, backup_type, custom_name,
                                      env, retention, tree)
                /\ issued' = IF ok THEN issued \cup {n} ELSE issued
                /\ last' = [op |-> "create", ok |-> ok, n |-> n,
                            msg |-> IF ok THEN ""
                                    ELSE IF env \in ArchiveWritten
                                    THEN "IOError"
                                    ELSE IF env = "vanished"
                                    THEN "Backup file was not created"
                                    ELSE "Backup failed"]
    /\ UNCHANGED <<today, retention, manual>>

delete_backup(backup_identifier) ==
    LET backups == list_backups(disk)
        k == first_match(backups, backup_identifier)
    IN  /\ IF list_raises(disk)
           THEN /\ disk' = disk
                /\ last' = [op |-> "delete", ok |-> FALSE, n |-> 0,
                            msg |-> "AttributeError"]
           ELSE IF k = 0
           THEN /\ disk' = disk
                /\ last' = [op |-> "delete", ok |-> FALSE, n |-> 0,
                            msg |-> "Backup not found"]
           ELSE /\ disk' = delete_target(disk, backups[k].date,
                                         backups[k].info.filename)
                /\ last' = [op |-> "delete", ok |-> TRUE,
                            n |-> backups[k].info.number, msg |-> ""]
        /\ UNCHANGED <<today, retention, manual, issued>>

\* _cleanup_old_backups called on its own; iterdir raises when backup_dir
\* is missing
cleanup ==
    /\ IF retention > 0 /\ ~disk.root
       THEN /\ disk' = disk
            /\ last' = [op |-> "cleanup", ok |-> FALSE, n |-> 0,
                        msg |-> "FileNotFoundError"]
       ELSE /\ disk' = cleanup_old_backups(disk, retention)
            /\ last' = [op |-> "cleanup", ok |-> TRUE,
                        n |-> Cardinality(disk.dirs \ disk'.dirs),
                        msg |-> ""]
    /\ UNCHANGED <<today, retention, manual, issued>>

\* list_backups called on its own: it reads, and writes nothing
ListBackups ==
    /\ disk' = disk
    /\ last' = IF list_raises(disk)
               THEN [op |-> "list", ok |-> FALSE, n |-> 0,
                     msg |-> "AttributeError"]
               ELSE [op |-> "list", ok |-> TRUE,
                     n |-> Len(list_backups(disk)), msg |-> ""]
    /\ UNCHANGED <<today, retention, manual, issued>>

\* ---------------------------------------------------------------- environment
\* the calendar day changes
AdvanceDay ==
    /\ today < MaxDay
    /\ today' = today + 1
    /\ issued' = {}
    /\ last' = NoLast
    /\ UNCHANGED <<disk, retention, manual>>

\* an archive is removed by hand
ManualDelete(d, f) ==
    /\ manual < MaxManual
    /\ f \in disk.zips[d]
    /\ disk' = unlink(disk, d, f)
    /\ manual' = manual + 1
    /\ last' = NoLast
    /\ UNCHANGED <<today, retention, issued>>

\* a file is put into a bucket directory by hand: an archive, or some
\* other file
ManualAdd(d, zip) ==
    /\ manual < MaxManual
    /\ d \in disk.dirs
    /\ IF zip THEN OrphanZip \notin disk.zips[d] ELSE disk.others[d] = {}
    /\ disk' = IF zip THEN [disk EXCEPT !.zips[d] = @ \cup {OrphanZip}]
               ELSE [disk EXCEPT !.others[d] = OtherNames]
    /\ manual' = manual + 1
    /\ last' = NoLast
    /\ UNCHANGED <<today, retention, issued>>

Step(A) ==
    /\ steps < MaxSteps
    /\ steps' = steps + 1
    /\ A
    /\ UNCHANGED <<tree, run, excl, srv, sch, probe, jobs, twin>>

Next ==
    \/ \E in \in CreateInputs, e \in CreateEnvs :
          Step(create_backup(in[1], in[2], e))
    \/ \E id \in Identifiers : Step(delete_backup(id))
    \/ Step(cleanup)
    \/ Step(ListBackups)
    \/ Step(AdvanceDay)
    \/ \E d \in Days : \E f \in disk.zips[d] : Step(ManualDelete(d, f))
    \/ \E d \in Days, z \in BOOLEAN : Step(ManualAdd(d, z))

Spec == Init /\ [][Next]_vars

\* ---------------------------------------------------------------- clock set back
\* the system clock is set back over midnight (a correction of the clock, a
\* change of time zone): datetime.now() names an earlier day than before
ClockBack ==
    /\ today > 1
    /\ today' = today - 1
    /\ issued' = {}
    /\ last' = NoLast
    /\ UNCHANGED <<disk, retention, manual>>

\* backups made while the date given by the clock moves both ways
NextSkew ==
    \/ Step(create_backup("quick", <<>>, "ok"))
    \/ Step(ListBackups)
    \/ Step(AdvanceDay)
    \/ Step(ClockBack)

SpecSkew == Init /\ [][NextSkew]_vars

\* ---------------------------------------------------------------- metadata faults
\* backups.json of a bucket is damaged from outside: its content becomes
\* text that is no JSON, or JSON that is no document with a list of backups
CorruptMetadata(d, kind) ==
    /\ manual < MaxManual
    /\ d \in disk.dirs
    /\ disk' = [disk EXCEPT !.meta[d] = [exists |-> TRUE, backups |-> <<>>,
                                         kind |-> kind]]
    /\ manual' = manual + 1
    /\ last' = NoLast
    /\ UNCHANGED <<today, retention, issued>>

FaultIdentifiers == { <<"0", "0", "1">>, <<"0", "0", "2">>, Zip }

\* the catalog operations when writing backups.json can fail and its
\* content can be damaged
NextFault ==
    \/ \E e \in ArchiveWritten : Step(create_backup("quick", <<>>, e))
    \/ \E id \in FaultIdentifiers : Step(delete_backup(id))
    \/ Step(ListBackups)
    \/ Step(AdvanceDay)
    \/ \E d \in Days, kind \in BadKinds : Step(CorruptMetadata(d, kind))

SpecFault == Init /\ [][NextFault]_vars

\* ---------------------------------------------------------------- one backup, file by file
\* create_backup up to the try block
StartBackup(backup_type) ==
    /\ run.pc = "idle"
    /\ LET d0 == mkdir(disk, today)
           backup_number == get_next_backup_number(d0, today)
       IN  /\ disk' = d0
           /\ run' = pass_start(
                  [IdleRun EXCEPT !.type = backup_type,
                                  !.number = backup_number,
                                  !.filename = backup_filename(
                                      backup_number, backup_type, <<>>)],
                  tree, "scan")
    /\ UNCHANGED <<today, retention, steps, manual, issued, last, tree>>

\* one file of a walk (is_file, then the guarded stat), or one name of the
\* include list: exists and is_file, then in a later step the stat that
\* no except clause guards
count_step(rn, tr) ==
    IF rn.sub # <<>>
    THEN LET p == Head(rn.sub)
             counted == /\ tr[p] # "absent"
                        /\ rn.type = "full" => ~should_exclude(p, FULL_EXCLUDE)
         IN  [rn EXCEPT !.sub = Tail(@),
                        !.file_count = IF counted THEN @ + 1 ELSE @]
    ELSE LET item_name == Head(rn.queue)
         IN  IF rn.pending
             THEN IF tr[item_name] = "absent" THEN [rn EXCEPT !.pc = "raised"]
                  ELSE [rn EXCEPT !.pending = FALSE, !.queue = Tail(@)]
             ELSE IF is_file(tr, item_name)
             THEN [rn EXCEPT !.pending = TRUE, !.file_count = @ + 1]
             ELSE [rn EXCEPT !.queue = Tail(@),
                             !.sub = files_under(tr, item_name)]

\* _count_files_to_backup, a step of it
CountFiles ==
    /\ run.pc = "scan"
    /\ run.sub # <<>> \/ run.queue # <<>>
    /\ run' = count_step(run, tree)
    /\ UNCHANGED <<disk, today, retention, steps, manual, issued, last, tree>>

\* zipfile.ZipFile(backup_path, 'w') once the files are counted
OpenArchive ==
    /\ run.pc = "scan"
    /\ run.sub = <<>> /\ run.queue = <<>>
    /\ disk' = write_archive(disk, today, run.filename, FALSE)
    /\ run' = pass_start(run, tree, "write")
    /\ UNCHANGED <<today, retention, steps, manual, issued, last, tree>>

\* _add_files_to_zip_with_progress, a step of it
AddFiles ==
    /\ run.pc = "write"
    /\ run.sub # <<>> \/ run.queue # <<>>
    /\ run' = add_step(run, tree)
    /\ UNCHANGED <<disk, today, retention, steps, manual, issued, last, tree>>

\* the archive is closed, its record is stored and old buckets are pruned
CloseArchive ==
    /\ run.pc = "write"
    /\ run.sub = <<>> /\ run.queue = <<>>
    /\ LET d1 == write_archive(disk, today, run.filename, TRUE)
           rec == [number |-> run.number, filename |-> run.filename,
                   type |-> run.type, files_count |-> run.files_added]
           d2 == save_metadata(d1, today,
                               Append(load_metadata(d1, today), rec))
       IN  disk' = cleanup_old_backups(d2, retention)
    /\ run' = [run EXCEPT !.pc = "done", !.result = "ok"]
    /\ issued' = issued \cup {run.number}
    /\ last' = [op |-> "create", ok |-> TRUE, n |-> run.number, msg |-> ""]
    /\ UNCHANGED <<today, retention, steps, manual, tree>>

\* except Exception: the error is printed, the partial backup is unlinked
\* and None is returned
BackupFailed ==
    /\ run.pc = "raised"
    /\ disk' = unlink_partial(disk, today, run.filename)
    /\ run' = [run EXCEPT !.pc = "done", !.result = "failed"]
    /\ last' = [op |-> "create", ok |-> FALSE, n |-> run.number,
                msg |-> "Backup failed"]
    /\ UNCHANGED <<today, retention, steps, manual, issued, tree>>

\* while the backup runs a file of the server directory is removed, loses
\* its read permission, or is put (back) in place
TreeChange(p, st) ==
    /\ run.pc \in {"scan", "write"}
    /\ manual < MaxManual
    /\ tree[p] # st
    /\ tree' = [tree EXCEPT ![p] = st]
    /\ manual' = manual + 1
    /\ UNCHANGED <<disk, today, retention, steps, issued, last, run>>

InitBuild ==
    /\ disk = EmptyDisk
    /\ today = 1
    /\ retention \in Retentions
    /\ steps = 0
    /\ manual = 0
    /\ issued = {}
    /\ last = NoLast
    /\ tree \in [Paths -> {"file", "absent"}]
    /\ run = IdleRun
    /\ excl = NoCall
    /\ srv = IdleServer
    /\ sch = IdleScheduler
    /\ probe = NoProbe
    /\ jobs = NoJobs
    /\ twin = NoTwin

BuildStep(A) == A /\ UNCHANGED <<excl, srv, sch, probe, jobs, twin>>

NextBuild ==
    \/ \E t \in BACKUP_TYPES : BuildStep(StartBackup(t))
    \/ BuildStep(CountFiles)
    \/ BuildStep(OpenArchive)
    \/ BuildStep(AddFiles)
    \/ BuildStep(CloseArchive)
    \/ BuildStep(BackupFailed)
    \/ \E p \in Paths, st \in FileStates : BuildStep(TreeChange(p, st))

SpecBuild == InitBuild /\ [][NextBuild]_vars

\* ---------------------------------------------------------------- _should_exclude
\* the characters paths are made of, and the patterns
PathChars == {"a", ".", "l", "*"}

PathInputs == UNION {[1..k -> PathChars] : k \in 0..MaxPathLen}

PatternPool == { <<"l">>, <<"*", ".", "l">>, <<"a", "*">>, <<"*">> }

ShouldExclude ==
    /\ ~excl.called
    /\ excl' = [excl EXCEPT !.called = TRUE,
                            !.result = should_exclude(excl.path, excl.patterns)]
    /\ UNCHANGED <<disk, today, retention, steps, manual, issued, last, tree,
                   run, srv, sch, probe, jobs, twin>>

InitExclude ==
    /\ disk = EmptyDisk
    /\ today = 1
    /\ retention = 0
    /\ steps = 0
    /\ manual = 0
    /\ issued = {}
    /\ last = NoLast
    /\ tree = [p \in Paths |-> "file"]
    /\ run = IdleRun
    /\ \E p \in PathInputs, ps \in SUBSET PatternPool :
          excl = [path |-> p, patterns |-> ps, called |-> FALSE,
                  result |-> FALSE]
    /\ srv = IdleServer
    /\ sch = IdleScheduler
    /\ probe = NoProbe
    /\ jobs = NoJobs
    /\ twin = NoTwin

NextExclude == ShouldExclude

SpecExclude == InitExclude /\ [][NextExclude]_vars

\* ------------------------------------------------- server start and stop
\* what a method returned, as recorded in srv
Returned(b) == IF b THEN "true" ELSE "false"

ServerCalls == {"stop", "start", "restart", "watch", "send_command"}

\* texts given to send_command: a letter and the double quote
CommandChars == {"s", "\""}

CommandTexts == UNION {[1..k -> CommandChars] : k \in 1..MaxTextLen}

\* the newline that the stuff command makes of the two characters \n
Newline == "\n"

Quotes(text) == Len(SelectSeq(text, LAMBDA c : c = "\""))

\* send_to_screen puts the text between double quotes in a shell command
\* line, 'screen -S name -X stuff "text\n"': the shell can read the line
\* only if the quotes in it pair up
shell_reads(text) == Quotes(text) % 2 = 0

\* a stuff argument that is the text as given, whatever it holds
stuffed_verbatim(text) == text \o <<Newline>>

\* the argument that the shell hands to the stuff command: the double quotes
\* of the text end and reopen the quoted string and are not part of it
stuffed(text) == SelectSeq(text, LAMBDA c : c # "\"") \o <<Newline>>

\* a start() that goes on although the session is there
already_running_ignored(running) == FALSE

\* start(): "if self.is_running(): ... return False"
already_running(running) == running

\* a start() that does not look for the server jar
jar_check_skipped(jar) == FALSE

\* start(): "if not jar_path.exists(): ... return False"
jar_missing(jar) == ~jar

\* screen_exists(): the session list is asked for; an answer that could not
\* be had counts as "no session"
screen_exists(s, listed) == s.present /\ listed

is_running(s, listed) == screen_exists(s, listed)

logged(s, e) == [s EXCEPT !.events = Append(@, e)]

probed(s, listed) ==
    logged(s, IF is_running(s, listed) THEN "probe_yes" ELSE "probe_no")

\* restart() goes on to start() whatever stop() returned
restart_regardless(stop_result) == TRUE

\* restart(): "if not self.stop(): return False"
restart_goes_on(stop_result) == stop_result

\* start() is entered
enter_start(s) ==
    [logged(s, "start") EXCEPT !.pc = "start_check", !.elapsed = 0]

\* the outermost call returns b
returns(s, b) == [s EXCEPT !.pc = "done", !.result = Returned(b)]

\* watch(): "if self.start(): ... else: ... break"
watch_goes_on(start_result) == start_result

\* start() returns b, to its caller or to the loop of watch()
start_returns(s, b) ==
    IF s.call = "watch"
    THEN IF watch_goes_on(b)
         THEN [s EXCEPT !.pc = "watch_sleep"]
         ELSE [s EXCEPT !.pc = "done"]
    ELSE returns(s, b)

\* stop() returns b, to its caller or to restart()
stop_returns(s, b) ==
    LET t == [logged(s, IF b THEN "stop_true" ELSE "stop_false")
                 EXCEPT !.stopped = Returned(b)]
    IN  IF s.call = "restart"
        THEN IF restart_goes_on(b) THEN enter_start(t) ELSE returns(t, FALSE)
        ELSE returns(t, b)

\* _force_stop(): the probe is inside "if run_command(cmd):"
force_stop_probes(quit_ok) == quit_ok

\* one of the three methods is called
Call ==
    /\ srv.pc = "idle"
    /\ \E c \in ServerCalls :
          srv' = CASE c = "start" -> enter_start([srv EXCEPT !.call = c])
                   [] c = "watch" ->
                        [srv EXCEPT !.call = c, !.pc = "watch_check"]
                   [] c = "send_command" ->
                        [srv EXCEPT !.call = c, !.pc = "send_check"]
                   [] OTHER -> [srv EXCEPT !.call = c, !.pc = "stop_check"]

\* stop(): "if not self.is_running(): return True"
StopCheck ==
    /\ srv.pc = "stop_check"
    /\ \E listed \in BOOLEAN :
          LET s == probed(srv, listed)
          IN  srv' = IF is_running(srv, listed)
                     THEN [s EXCEPT !.pc = "stop_send"]
                     ELSE stop_returns(s, TRUE)

\* stop(): send_to_screen(name, "stop"); a failure is returned at once
StopSend ==
    /\ srv.pc = "stop_send"
    /\ \E ok \in BOOLEAN :
          /\ ok => srv.present
          /\ srv' = IF ok
                    THEN [logged(srv, "stuff_ok")
                             EXCEPT !.pc = "stop_wait", !.elapsed = 0]
                    ELSE stop_returns(logged(srv, "stuff_failed"), FALSE)

\* stop(): one turn of wait_for_condition(lambda: not self.is_running()),
\* or its end when the timeout has run out
StopWait ==
    /\ srv.pc = "stop_wait"
    /\ IF srv.elapsed < StopTimeout
       THEN \E listed \in BOOLEAN :
               LET s == probed(srv, listed)
               IN  srv' = IF ~is_running(srv, listed)
                          THEN stop_returns(s, TRUE)
                          ELSE [s EXCEPT !.elapsed = @ + 1]
       ELSE srv' = [srv EXCEPT !.pc = "force_quit"]

\* _force_stop(): the quit command; it may fail, and the session may or may
\* not be gone when it is over
ForceQuit ==
    /\ srv.pc = "force_quit"
    /\ \E ok \in BOOLEAN, gone \in BOOLEAN :
          /\ ok => srv.present
          /\ LET s == [logged(srv, IF ok THEN "quit_ok" ELSE "quit_failed")
                          EXCEPT !.present = @ /\ ~gone]
             IN  srv' = IF force_stop_probes(ok)
                        THEN [s EXCEPT !.pc = "force_probe"]
                        ELSE stop_returns(s, FALSE)

\* _force_stop(): "if not self.is_running(): return True", else False
ForceProbe ==
    /\ srv.pc = "force_probe"
    /\ \E listed \in BOOLEAN :
          srv' = stop_returns(probed(srv, listed), ~is_running(srv, listed))

\* start(): already running, or no server jar: False
StartCheck ==
    /\ srv.pc = "start_check"
    /\ \E listed \in BOOLEAN :
          LET s == probed(srv, listed)
          IN  srv' = IF \/ already_running(is_running(srv, listed))
                        \/ jar_missing(srv.jar)
                     THEN start_returns(s, FALSE)
                     ELSE [s EXCEPT !.pc = "start_launch"]

\* start(): the session is launched
StartLaunch ==
    /\ srv.pc = "start_launch"
    /\ \E ok \in BOOLEAN :
          srv' = IF ok
                 THEN [logged(srv, "launch_ok")
                          EXCEPT !.present = TRUE, !.pc = "start_wait",
                                 !.elapsed = 0]
                 ELSE start_returns(logged(srv, "launch_failed"), FALSE)

\* a wait_for_condition that reports True when the time has run out
timed_out_true == TRUE

\* wait_for_condition: "return False" after the loop
timed_out == FALSE

\* start(): one turn of wait_for_condition(self.is_running, timeout=10), or
\* its end
StartWait ==
    /\ srv.pc = "start_wait"
    /\ IF srv.elapsed < StartTimeout
       THEN \E listed \in BOOLEAN :
               LET s == probed(srv, listed)
               IN  srv' = IF is_running(srv, listed)
                          THEN start_returns(s, TRUE)
                          ELSE [s EXCEPT !.elapsed = @ + 1]
       ELSE srv' = start_returns(srv, timed_out)

\* send_command(): "if not self.is_running(): ... return False"
SendCheck ==
    /\ srv.pc = "send_check"
    /\ \E listed \in BOOLEAN, text \in CommandTexts :
          LET s == [probed(srv, listed) EXCEPT !.text = text]
          IN  srv' = IF is_running(srv, listed)
                     THEN [s EXCEPT !.pc = "send_stuff"]
                     ELSE returns(s, FALSE)

\* send_command(): send_to_screen(name, command) and what it returns
SendStuff ==
    /\ srv.pc = "send_stuff"
    /\ \E ok \in BOOLEAN :
          /\ ok => (srv.present /\ shell_reads(srv.text))
          /\ srv' = IF ok
                    THEN returns([logged(srv, "stuff_ok") EXCEPT
                                     !.written = Append(@, stuffed(srv.text))],
                                 TRUE)
                    ELSE returns(logged(srv, "stuff_failed"), FALSE)

\* watch(): "if not self.is_running():" then start()
WatchCheck ==
    /\ srv.pc = "watch_check"
    /\ \E listed \in BOOLEAN :
          LET s == probed(srv, listed)
          IN  srv' = IF is_running(srv, listed)
                     THEN [s EXCEPT !.pc = "watch_sleep"]
                     ELSE enter_start(s)

\* watch(): time.sleep(check_interval), then the next turn of the loop
WatchSleep ==
    /\ srv.pc = "watch_sleep"
    /\ srv.ticks < MaxTicks
    /\ srv' = [srv EXCEPT !.pc = "watch_check", !.ticks = @ + 1,
                          !.events = <<>>, !.elapsed = 0]

\* watch(): KeyboardInterrupt anywhere in the loop, "Watchdog stopped"
Interrupt ==
    /\ srv.call = "watch"
    /\ srv.pc \notin {"idle", "done"}
    /\ srv' = [srv EXCEPT !.pc = "done", !.interrupted = TRUE]

\* somebody else starts the server in a session of the configured name
SessionAppears ==
    /\ srv.pc \notin {"idle", "done"}
    /\ ~srv.present
    /\ srv' = [srv EXCEPT !.present = TRUE]

\* the server process ends, and its session with it
SessionEnds ==
    /\ srv.pc \notin {"idle", "done"}
    /\ srv.present
    /\ srv' = [srv EXCEPT !.present = FALSE]

InitServer ==
    /\ disk = EmptyDisk
    /\ today = 1
    /\ retention \in Retentions
    /\ steps = 0
    /\ manual = 0
    /\ issued = {}
    /\ last = NoLast
    /\ tree = [p \in Paths |-> "file"]
    /\ run = IdleRun
    /\ excl = NoCall
    /\ \E present \in BOOLEAN, jar \in BOOLEAN :
          srv = [IdleServer EXCEPT !.present = present, !.jar = jar]
    /\ sch = IdleScheduler
    /\ probe = NoProbe
    /\ jobs = NoJobs
    /\ twin = NoTwin

ServerStep(A) ==
    /\ A
    /\ UNCHANGED <<disk, today, retention, steps, manual, issued, last, tree,
                   run, excl, sch, probe, jobs, twin>>

\* the steps of the method that was called
ServerProgram ==
    \/ ServerStep(Call)
    \/ ServerStep(StopCheck)
    \/ ServerStep(StopSend)
    \/ ServerStep(StopWait)
    \/ ServerStep(ForceQuit)
    \/ ServerStep(ForceProbe)
    \/ ServerStep(StartCheck)
    \/ ServerStep(StartLaunch)
    \/ ServerStep(StartWait)
    \/ ServerStep(SendCheck)
    \/ ServerStep(SendStuff)
    \/ ServerStep(WatchCheck)
    \/ ServerStep(WatchSleep)

NextServer ==
    \/ ServerProgram
    \/ ServerStep(Interrupt)
    \/ ServerStep(SessionAppears)
    \/ ServerStep(SessionEnds)

SpecServer == InitServer /\ [][NextServer]_vars

\* the called method keeps running: every command and probe it runs comes
\* back (run_command and get_command_output have timeouts)
SpecServerLive == InitServer /\ [][NextServer]_vars /\ WF_vars(ServerProgram)

\* ------------------------------------------------- commands, one at a time
\* backups are made while no server method is being run
CliBackup ==
    /\ srv.pc = "idle"
    /\ steps < MaxCliBackups
    /\ \E in \in CreateInputs, e \in CreateEnvs :
          Step(create_backup(in[1], in[2], e))

NextCli ==
    \/ CliBackup
    \/ NextServer

SpecCli == InitServer /\ [][NextCli]_vars

\* ---------------------------------------------------------------- scheduler
\* self.interval = config.get("backup_interval", 60) * 60
Intervals == {k * SlicesPerTick : k \in 1..MaxIntervalTicks}

\* _should_backup() that is always true
should_backup_always(last_backup, now, interval) == TRUE

\* _should_backup()
should_backup(last_backup, now, interval) ==
    IF last_backup = 0 THEN TRUE ELSE now - last_backup >= interval

\* _create_backup() that moves last_backup after a failure too
backup_done_always(last_backup, now, ok) == now

\* _create_backup(): "if backup_path: self.last_backup = time.time()"
backup_done(last_backup, now, ok) == IF ok THEN now ELSE last_backup

\* a sleep loop that does not look at the running flag
sleep_to_the_end(running) == TRUE

\* start(): "if not self.running: break" in the loop of sleep slices
sleep_goes_on(running) == running

\* a test of the loop that does not look at the running flag
loop_test_ignores_running(running, due) == due

\* start(): "if self.running and self._should_backup():"
loop_test(running, due) == running /\ due

\* a _create_backup() that is left running while start() goes on
backup_in_background == "loop_top"

\* _create_backup() is an ordinary call: start() waits in it until
\* create_backup has returned
backup_awaited == "backing"

\* _create_backup() is entered: create_backup starts to write an archive
begin_backup(s, initial) ==
    [s EXCEPT !.pc = backup_awaited, !.writing = TRUE, !.initial = initial,
              !.began_at = s.now, !.begun_after = @ \/ s.signalled,
              !.overlap = @ \/ s.writing]

\* a start() that goes into its loop without the initial backup
after_start_loop == "loop_top"

\* start(): after self.running = True comes the initial _create_backup()
after_start == "initial"

\* start(): self.running = True
SchedStart ==
    /\ sch.pc = "new"
    /\ sch' = [sch EXCEPT !.running = TRUE, !.pc = after_start]

\* start(): the initial self._create_backup()
BeginInitial ==
    /\ sch.pc = "initial"
    /\ sch' = begin_backup(sch, TRUE)

\* _create_backup(): create_backup returns a path, or returns None or raises
\* after removing what it wrote of the archive
EndBackup ==
    /\ sch.pc = "backing"
    /\ \E ok \in BOOLEAN, d \in 0..MaxBackupSeconds :
          /\ sch.now + d <= MaxNow
          /\ sch' = [sch EXCEPT
                       !.now = @ + d,
                       !.last_backup = backup_done(@, sch.now + d, ok),
                       !.writing = FALSE,
                       !.outcome = IF ok THEN "ok" ELSE "failed",
                       !.pc = "loop_top"]

\* start(): "while self.running:"
LoopTop ==
    /\ sch.pc = "loop_top"
    /\ sch' = IF sch.running
              THEN [sch EXCEPT !.pc = "sleeping", !.slices = 0]
              ELSE [sch EXCEPT !.pc = "exited"]

\* start(): "for _ in range(60): if not self.running: break"
SleepCheck ==
    /\ sch.pc = "sleeping"
    /\ IF sch.slices < SlicesPerTick /\ sleep_goes_on(sch.running)
       THEN /\ sch.now < MaxNow
            /\ sch' = [sch EXCEPT !.pc = "slice"]
       ELSE sch' = [sch EXCEPT !.pc = "decide"]

\* start(): time.sleep(1)
SleepSlice ==
    /\ sch.pc = "slice"
    /\ sch' = [sch EXCEPT !.now = @ + 1, !.slices = @ + 1,
                          !.slept_after = IF sch.signalled THEN @ + 1 ELSE @,
                          !.pc = "sleeping"]

\* start(): "if self.running and self._should_backup():"
Decide ==
    /\ sch.pc = "decide"
    /\ sch' = IF loop_test(sch.running,
                           should_backup(sch.last_backup, sch.now,
                                         sch.interval))
              THEN [sch EXCEPT !.pc = "due"]
              ELSE [sch EXCEPT !.pc = "loop_top"]

\* start(): the self._create_backup() of a turn whose test was true
BeginScheduled ==
    /\ sch.pc = "due"
    /\ sch' = begin_backup(sch, FALSE)

\* _signal_handler(): SIGINT or SIGTERM reaches the started scheduler
Signal ==
    /\ sch.pc \notin {"new", "exited"}
    /\ ~sch.signalled
    /\ sch' = [sch EXCEPT !.running = FALSE, !.signalled = TRUE]

InitSched ==
    /\ disk = EmptyDisk
    /\ today = 1
    /\ retention = -1
    /\ steps = 0
    /\ manual = 0
    /\ issued = {}
    /\ last = NoLast
    /\ tree = [p \in Paths |-> "file"]
    /\ run = IdleRun
    /\ excl = NoCall
    /\ srv = IdleServer
    /\ \E i \in Intervals : sch = [IdleScheduler EXCEPT !.interval = i]
    /\ probe = NoProbe
    /\ jobs = NoJobs
    /\ twin = NoTwin

SchedStep(A) ==
    /\ A
    /\ UNCHANGED <<disk, today, retention, steps, manual, issued, last, tree,
                   run, excl, srv, probe, jobs, twin>>

\* the steps of the scheduler itself
SchedProgram ==
    \/ SchedStep(SchedStart)
    \/ SchedStep(BeginInitial)
    \/ SchedStep(EndBackup)
    \/ SchedStep(LoopTop)
    \/ SchedStep(SleepCheck)
    \/ SchedStep(SleepSlice)
    \/ SchedStep(Decide)
    \/ SchedStep(BeginScheduled)

NextSched ==
    \/ SchedProgram
    \/ SchedStep(Signal)

SpecSched == InitSched /\ [][NextSched]_vars

\* the scheduler is one thread that keeps running, and create_backup returns
SpecSchedLive == InitSched /\ [][NextSched]_vars /\ WF_vars(SchedProgram)

\* ---------------------------------------------------------------- screen_exists
\* session names that are asked for
ProbeNames == { <<"m", "c">>, <<"m", "c", "2">> }

\* names of sessions that may exist
SessionPool ==
    { <<"m", "c">>, <<"m", "c", "2">>, <<"x", "m", "c">>, <<"a", ".", "m", "c">> }

\* the line of "screen -ls" for one session: pid, dot, name, tab
listing_line(name) == <<"7", ".">> \o name \o <<"\t">>

RECURSIVE screen_ls(_)
\* the lines of "screen -ls" for a set of sessions
screen_ls(sessions) ==
    IF sessions = {} THEN <<>>
    ELSE LET n == CHOOSE x \in sessions : TRUE
         IN  listing_line(n) \o screen_ls(sessions \ {n})

\* how the query can go: it prints the listing with status 0, it ends with
\* another status, it does not end within 10 seconds, it prints nothing
QueryOutcomes == {"ok", "failed", "timeout", "empty"}

\* a get_command_output that lets subprocess.TimeoutExpired through
output_raises_on_timeout(query) == query = "timeout"

\* get_command_output: "except (subprocess.TimeoutExpired,
\* subprocess.SubprocessError): pass"
output_raises(query) == FALSE

\* get_command_output("screen -ls"): the text, or None (here the empty text)
\* when the command fails or times out
listing_output(sessions, query) ==
    IF query = "ok" THEN screen_ls(sessions) ELSE <<>>

\* screen_exists: 'if output: return f".{session_name}" in output'
name_in(session_name, output) ==
    output # <<>> /\ IsSubstring(<<".">> \o session_name, output)

ScreenExists ==
    /\ ~probe.called
    /\ probe' = IF output_raises(probe.query)
                THEN [probe EXCEPT !.called = TRUE, !.raised = TRUE]
                ELSE [probe EXCEPT
                        !.called = TRUE,
                        !.result = name_in(probe.name,
                                           listing_output(probe.sessions,
                                                          probe.query))]
    /\ UNCHANGED <<disk, today, retention, steps, manual, issued, last, tree,
                   run, excl, srv, sch, jobs, twin>>

InitProbe ==
    /\ disk = EmptyDisk
    /\ today = 1
    /\ retention = -1
    /\ steps = 0
    /\ manual = 0
    /\ issued = {}
    /\ last = NoLast
    /\ tree = [p \in Paths |-> "file"]
    /\ run = IdleRun
    /\ excl = NoCall
    /\ srv = IdleServer
    /\ sch = IdleScheduler
    /\ jobs = NoJobs
    /\ twin = NoTwin
    /\ \E n \in ProbeNames, ss \in SUBSET SessionPool, q \in QueryOutcomes :
          probe = [NoProbe EXCEPT !.name = n, !.sessions = ss, !.query = q]

NextProbe == ScreenExists

SpecProbe == InitProbe /\ [][NextProbe]_vars

\* ---------------------------------------------------------------- two backups at once
\* the custom_name a caller passes: the backup command none, the scheduler
\* "scheduled_<time>"
custom_name_of(c) == IF c = "scheduler" THEN <<"s", "c">> ELSE <<>>

\* the record a create_backup call appends
record_of(job, tr) ==
    [ number |-> job.number, filename |-> job.filename, type |-> "quick",
      files_count |-> build_archive(tr, "quick").files_added ]

\* create_backup up to the try block: the bucket directory is made, the
\* number is read from the metadata, the filename is built
JobEnter(c) ==
    /\ jobs[c].pc = "idle"
    /\ LET d0 == mkdir(disk, today)
           backup_number == get_next_backup_number(d0, today)
       IN  /\ disk' = d0
           /\ jobs' = [jobs EXCEPT ![c] =
                 [@ EXCEPT !.pc = "write", !.number = backup_number,
                           !.filename = backup_filename(
                               backup_number, "quick", custom_name_of(c))]]

\* the archive is written and closed, or writing fails and the except
\* branch unlinks the partial file and returns None
JobWrite(c, env) ==
    /\ jobs[c].pc = "write"
    /\ IF env = "ok"
       THEN /\ disk' = write_archive(disk, today, jobs[c].filename, TRUE)
            /\ jobs' = [jobs EXCEPT ![c].pc = "load"]
       ELSE /\ disk' = unlink_partial(
                           write_archive(disk, today, jobs[c].filename, FALSE),
                           today, jobs[c].filename)
            /\ jobs' = [jobs EXCEPT ![c].pc = "done", ![c].result = "failed"]

\* metadata = self._load_metadata(date_dir)
JobLoad(c) ==
    /\ jobs[c].pc = "load"
    /\ jobs' = [jobs EXCEPT ![c].pc = "save",
                            ![c].loaded = load_metadata(disk, today)]
    /\ disk' = disk

\* metadata["backups"].append(backup_metadata); self._save_metadata(...)
JobSave(c) ==
    /\ jobs[c].pc = "save"
    /\ disk' = save_metadata(disk, today,
                             Append(jobs[c].loaded, record_of(jobs[c], tree)))
    /\ jobs' = [jobs EXCEPT ![c].pc = "cleanup"]

\* self._cleanup_old_backups(); return backup_path
JobReturn(c) ==
    /\ jobs[c].pc = "cleanup"
    /\ disk' = cleanup_old_backups(disk, retention)
    /\ jobs' = [jobs EXCEPT ![c].pc = "done", ![c].result = "ok"]

JobStep(A) ==
    /\ A
    /\ UNCHANGED <<today, retention, steps, manual, issued, last, tree, run,
                   excl, srv, sch, probe, twin>>

\* today's bucket is empty or holds one earlier backup
InitRace ==
    /\ retention \in Retentions
    /\ disk \in {EmptyDisk,
                 create_run(EmptyDisk, 1, "quick", <<>>, "ok", retention,
                            [p \in Paths |-> "file"])}
    /\ today = 1
    /\ steps = 0
    /\ manual = 0
    /\ issued = {}
    /\ last = NoLast
    /\ tree = [p \in Paths |-> "file"]
    /\ run = IdleRun
    /\ excl = NoCall
    /\ srv = IdleServer
    /\ sch = IdleScheduler
    /\ probe = NoProbe
    /\ jobs = NoJobs
    /\ twin = NoTwin

\* a backup command and the scheduler's backup, each in a process of its
\* own, on one backup directory
NextRace ==
    \/ \E c \in Callers : JobStep(JobEnter(c))
    \/ \E c \in Callers, env \in {"ok", "write_failed"} :
          JobStep(JobWrite(c, env))
    \/ \E c \in Callers : JobStep(JobLoad(c))
    \/ \E c \in Callers : JobStep(JobSave(c))
    \/ \E c \in Callers : JobStep(JobReturn(c))

SpecRace == InitRace /\ [][NextRace]_vars

\* ---------------------------------------------------------------- two start() at once
\* start() is called by a starter
TwinCall(c) ==
    /\ twin.of[c].pc = "idle"
    /\ twin.of[c].calls < MaxStarts
    /\ twin' = [twin EXCEPT !.of[c] =
                  [@ EXCEPT !.pc = "check", !.calls = @ + 1, !.elapsed = 0,
                            !.result = "none"]]

\* start(): "if self.is_running(): ... return False"; the session list is
\* had whenever it is asked for
TwinCheck(c) ==
    /\ twin.of[c].pc = "check"
    /\ twin' = IF already_running(twin.sessions > 0)
               THEN [twin EXCEPT !.of[c].pc = "idle",
                                 !.of[c].result = Returned(FALSE)]
               ELSE [twin EXCEPT !.of[c].pc = "launch"]

\* start(): run_command('screen -dmS <name> java ...') makes a new detached
\* session of that name whatever sessions exist, or fails
TwinLaunch(c, ok) ==
    /\ twin.of[c].pc = "launch"
    /\ twin' = IF ok
               THEN [twin EXCEPT !.sessions = @ + 1, !.of[c].pc = "wait"]
               ELSE [twin EXCEPT !.of[c].pc = "idle",
                                 !.of[c].result = Returned(FALSE)]

\* start(): wait_for_condition(self.is_running, timeout=10)
TwinWait(c) ==
    /\ twin.of[c].pc = "wait"
    /\ twin' = IF twin.of[c].elapsed < StartTimeout
               THEN IF twin.sessions > 0
                    THEN [twin EXCEPT !.of[c].pc = "idle",
                                      !.of[c].result = Returned(TRUE)]
                    ELSE [twin EXCEPT !.of[c].elapsed = @ + 1]
               ELSE [twin EXCEPT !.of[c].pc = "idle",
                                 !.of[c].result = Returned(timed_out)]

\* a server process ends, and its session with it
TwinSessionEnds ==
    /\ twin.sessions > 0
    /\ twin' = [twin EXCEPT !.sessions = @ - 1]

TwinStep(A) ==
    /\ A
    /\ UNCHANGED <<disk, today, retention, steps, manual, issued, last, tree,
                   run, excl, srv, sch, probe, jobs>>

InitTwin ==
    /\ disk = EmptyDisk
    /\ today = 1
    /\ retention = -1
    /\ steps = 0
    /\ manual = 0
    /\ issued = {}
    /\ last = NoLast
    /\ tree = [p \in Paths |-> "file"]
    /\ run = IdleRun
    /\ excl = NoCall
    /\ srv = IdleServer
    /\ sch = IdleScheduler
    /\ probe = NoProbe
    /\ jobs = NoJobs
    /\ twin = NoTwin

\* the watch() loop and the start command, each in a process of its own, on
\* one session name
NextTwin ==
    \/ \E c \in Starters : TwinStep(TwinCall(c))
    \/ \E c \in Starters : TwinStep(TwinCheck(c))
    \/ \E c \in Starters, ok \in BOOLEAN : TwinStep(TwinLaunch(c, ok))
    \/ \E c \in Starters : TwinStep(TwinWait(c))
    \/ TwinStep(TwinSessionEnds)

SpecTwin == InitTwin /\ [][NextTwin]_vars

\* ---------------------------------------------------------------- claims
Records(dk, d) == load_metadata(dk, d)

NumbersOf(dk, d) == {Records(dk, d)[i].number : i \in 1..Len(Records(dk, d))}

\* the entry delete_backup(id) picks in the current state
Target(id) ==
    LET backups == list_backups(disk) IN backups[first_match(backups, id)]

DeleteSucceeds(id) == Step(delete_backup(id)) /\ last'.ok

\* the r greatest of a set of bucket keys
Newest(S, r) == {d \in S : Cardinality({e \in S : e > d}) < r}

BucketContents(dk, d) == <<dk.meta[d], dk.zips[d], dk.partial[d], dk.others[d]>>

\* C1: the number given to a new backup of today's bucket was given to no
\* earlier backup of that bucket, deleted ones included; the numbers given
\* are strictly increasing and start at 1.
C1_NumbersNeverReused ==
    [][(last'.op = "create" /\ last'.ok) =>
          /\ last'.n \notin issued
          /\ \A m \in issued : m < last'.n
          /\ (issued = {} => last'.n = 1)]_vars

\* C2: the next number is 1 for a bucket without metadata or without
\* records and otherwise 1 plus the largest stored number, and a successful
\* create_backup appends one record carrying exactly that number.
C2_NextNumber ==
    /\ [](\A d \in Days :
            LET n == get_next_backup_number(disk, d)
                nums == NumbersOf(disk, d)
            IN  IF nums = {} THEN n = 1
                ELSE (n - 1) \in nums /\ \A m \in nums : m <= n - 1)
    /\ [][(last'.op = "create" /\ last'.ok) =>
            LET old == Records(disk, today)
                new == Records(disk', today)
            IN  /\ Len(new) = Len(old) + 1
                /\ SubSeq(new, 1, Len(old)) = old
                /\ new[Len(new)].number = get_next_backup_number(disk, today)
                /\ last'.n = new[Len(new)].number]_vars

C2_Witness ==
    /\ last.op = "create" /\ last.ok
    /\ Len(Records(disk, today)) = 2
    /\ Records(disk, today)[1].number = 2
    /\ Records(disk, today)[2].number = 3

C4_VanishedFileOnlySkipped ==
    run.pc = "done" => run.result = "ok"

C8_DeleteLeavesOthers ==
    [][\A id \in Identifiers : DeleteSucceeds(id) =>
          LET t == Target(id)
          IN  \A d \in Days :
                LET old == Records(disk, d)
                    new == Records(disk', d)
                IN  IF d = t.date
                    THEN \E i \in 1..Len(old) :
                            /\ old[i] = t.info
                            /\ new = SubSeq(old, 1, i - 1)
                                       \o SubSeq(old, i + 1, Len(old))
                    ELSE new = old]_vars

\* C9: delete_backup(id) removes the first entry of the listing whose
\* filename is id, is id plus ".zip" or contains id, and no other archive;
\* without such an entry it fails and leaves the disk as it is.
C9_DeleteTargetsFirstMatch ==
    [][last'.op = "delete" => \A id \in Identifiers : Step(delete_backup(id)) =>
          LET listing == list_backups(disk)
              hits == {i \in 1..Len(listing) :
                          \/ listing[i].info.filename = id
                          \/ listing[i].info.filename = id \o Zip
                          \/ IsSubstring(id, listing[i].info.filename)}
          IN  IF hits = {} THEN ~last'.ok /\ disk' = disk
              ELSE LET k == CHOOSE i \in hits : \A j \in hits : i <= j
                       t == listing[k]
                   IN  /\ last'.ok
                       /\ last'.n = t.info.number
                       /\ t.info.filename \notin disk'.zips[t.date]
                       /\ \A i \in 1..Len(listing) :
                            (listing[i].date # t.date
                               \/ listing[i].info.filename # t.info.filename)
                              => listing[i].info.filename
                                   \in disk'.zips[listing[i].date]]_vars

C9_Witness ==
    /\ last.op = "delete" /\ last.ok /\ last.n = 1
    /\ Len(list_backups(disk)) = 2

\* C10: when a successful delete_backup leaves its bucket without records
\* and without archive files, the metadata file is removed, and the
\* directory too if nothing else is in it; a bucket that keeps a record or
\* an archive file keeps its metadata file and its directory.
C10_EmptyBucketRemoved ==
    [][last'.op = "delete" => \A id \in Identifiers : DeleteSucceeds(id) =>
          LET t == Target(id)
              d == t.date
          IN  IF Records(disk', d) = <<>>
                   /\ disk.zips[d] \ {t.info.filename} = {}
              THEN /\ ~disk'.meta[d].exists
                   /\ disk'.others[d] = disk.others[d]
                   /\ (d \in disk'.dirs) = (disk.others[d] # {})
              ELSE /\ d \in disk'.dirs
                   /\ disk'.meta[d].exists
                   /\ disk'.zips[d] = disk.zips[d] \ {t.info.filename}]_vars

C10_Witness ==
    /\ last.op = "delete" /\ last.ok
    /\ \E d \in disk.dirs :
          /\ ~disk.meta[d].exists
          /\ disk.zips[d] = {}
          /\ disk.others[d] # {}

\* the entries of a listing that belong to bucket d, in listing order
EntriesOf(listing, d) ==
    LET sel == SelectSeq(listing, LAMBDA x : x.date = d)
    IN  [i \in 1..Len(sel) |-> sel[i].info]

\* C11: list_backups returns exactly the records whose archive file exists,
\* newest bucket first and in stored order within a bucket; a record whose
\* file is missing is left out without error, and listing changes nothing
\* on disk.
C11_ListIsExactAndOrdered ==
    /\ [](LET listing == list_backups(disk)
          IN  /\ \A i \in 1..Len(listing) : listing[i].date \in disk.dirs
              /\ \A i, j \in 1..Len(listing) :
                    i < j => listing[i].date >= listing[j].date
              /\ \A d \in Days :
                    EntriesOf(listing, d)
                      = SelectSeq(Records(disk, d),
                                  LAMBDA b : b.filename \in disk.zips[d]))
    /\ [][last'.op = "list" =>
            /\ last'.ok
            /\ last'.n = Len(list_backups(disk))
            /\ disk' = disk]_vars

\* a listing of two entries that leaves out a record without its file
C11_Witness ==
    /\ last.op = "list" /\ last.ok /\ last.n = 2
    /\ \E d \in Days : \E i \in 1..Len(Records(disk, d)) :
          Records(disk, d)[i].filename \notin disk.zips[d]

RECURSIVE Unstarred(_)
Unstarred(pattern) ==
    IF pattern = <<>> THEN <<>>
    ELSE IF Head(pattern) = "*" THEN Unstarred(Tail(pattern))
    ELSE <<Head(pattern)>> \o Unstarred(Tail(pattern))

TrailingStarDropped(pattern) ==
    IF pattern # <<>> /\ pattern[Len(pattern)] = "*"
    THEN SubSeq(pattern, 1, Len(pattern) - 1) ELSE pattern

\* C12 as stated: _should_exclude(p, P) is true exactly when some pattern of
\* P is a substring of p or p ends with that pattern without its trailing
\* wildcard character; it is false for empty P.
C12_ExcludeTrailingWildcard ==
    excl.called =>
        /\ excl.result <=>
              \E pattern \in excl.patterns :
                  \/ IsSubstring(pattern, excl.path)
                  \/ EndsWith(excl.path, TrailingStarDropped(pattern))
        /\ excl.patterns = {} => ~excl.result

\* C12, amended: _should_exclude(p, P) is true exactly when some pattern of
\* P is a substring of p or p ends with that pattern with every wildcard
\* character removed, wherever it stands; it is false for empty P.
C12_ExcludeEveryWildcard ==
    excl.called =>
        /\ excl.result <=>
              \E pattern \in excl.patterns :
                  \/ IsSubstring(pattern, excl.path)
                  \/ EndsWith(excl.path, Unstarred(pattern))
        /\ excl.patterns = {} => ~excl.result

\* a path excluded by a pattern whose wildcard comes first
C12_Witness ==
    /\ excl.called /\ excl.result
    /\ excl.patterns = { <<"*", ".", "l">> }
    /\ excl.path = <<"a", ".", "l">>

\* the files a backup of the given type is to hold: in everything mode the
\* files not excluded, in named-include mode the named files and the files
\* below the named directories
ResolvedMembers(tr, backup_type) ==
    IF backup_type = "full"
    THEN {p \in Paths : tr[p] # "absent" /\ ~should_exclude(p, FULL_EXCLUDE)}
    ELSE {p \in Paths :
            /\ tr[p] # "absent"
            /\ \E i \in 1..Len(QUICK_INCLUDE) :
                  \/ p = QUICK_INCLUDE[i]
                  \/ /\ Len(p) > Len(QUICK_INCLUDE[i]) + 1
                     /\ SubSeq(p, 1, Len(QUICK_INCLUDE[i]) + 1)
                          = QUICK_INCLUDE[i] \o <<"/">>}

\* C13: after a create_backup run during which the server directory did not
\* change and every file could be read, the entry names of the archive are
\* exactly the relative paths of the resolved member set of its mode.
C13_EntriesAreResolvedMembers ==
    (run.pc = "done" /\ manual = 0) =>
        /\ run.result = "ok"
        /\ run.entries = ResolvedMembers(tree, run.type)
        /\ run.files_added = Cardinality(run.entries)

\* a quick backup holding a named file and a file below a named directory
C13_Witness ==
    /\ run.pc = "done" /\ run.result = "ok" /\ manual = 0
    /\ run.type = "quick"
    /\ run.entries = {ServerProperties, LevelDat}
    /\ tree[EulaTxt] = "file"

\* C14: a create_backup that returns success adds exactly one archive file
\* and appends exactly one record to today's bucket, and the files_count of
\* that record is the number of entries of the archive.
C14_OneArchiveOneRecord ==
    [][(last'.op = "create" /\ last'.ok) =>
          LET old == Records(disk, today)
              new == Records(disk', today)
          IN  /\ Cardinality(disk'.zips[today])
                   = Cardinality(disk.zips[today]) + 1
              /\ Len(new) = Len(old) + 1
              /\ SubSeq(new, 1, Len(old)) = old
              /\ new[Len(new)].files_count
                   = Cardinality(ResolvedMembers(tree, new[Len(new)].type))]_vars

\* C14, the part about files_count, for a run followed file by file while
\* the server directory changes: the one record of the first backup has
\* number 1 and counts the entries of the one archive.
C14_FilesCountIsEntries ==
    (run.pc = "done" /\ run.result = "ok") =>
        /\ disk.zips[today] = {run.filename}
        /\ Len(Records(disk, today)) = 1
        /\ Records(disk, today)[1].number = 1
        /\ Records(disk, today)[1].files_count = Cardinality(run.entries)

\* an operation that did not return: the exception left it
Raised(l) == l.msg \in {"KeyError", "TypeError", "AttributeError", "IOError"}

\* C15: when writing backups.json fails after the archive was written,
\* create_backup raises nothing, the archive of the run stays on disk and
\* success is reported.
C15_FailedSaveKeepsArchive ==
    [][last'.op = "create" =>
          \A e \in {"save_open_failed", "save_write_failed"} :
             (loads_as(disk, today) = "list"
                /\ Step(create_backup("quick", <<>>, e))) =>
                LET n == get_next_backup_number(disk, today)
                    f == backup_filename(n, "quick", <<>>)
                IN  /\ ~Raised(last')
                    /\ last'.ok
                    /\ f \in disk'.zips[today]
                    /\ f \notin disk'.partial[today]]_vars

\* success was reported and the archive of the run has no record
C15_Witness ==
    /\ last.op = "create" /\ last.ok
    /\ \E f \in disk.zips[today] :
          /\ f = backup_filename(last.n, "quick", <<>>)
          /\ \A i \in 1..Len(Records(disk, today)) :
                Records(disk, today)[i].filename # f

\* C16: a write of backups.json that fails leaves the records stored before
\* intact and readable: after create_backup the stored list is the old one
\* or the old one with the new record appended.
C16_SaveIsAtomic ==
    [][last'.op = "create" =>
          LET old == Records(disk, today)
              new == Records(disk', today)
          IN  \/ new = old
              \/ /\ Len(new) = Len(old) + 1
                 /\ SubSeq(new, 1, Len(old)) = old]_vars

\* C17: whatever backups.json of a bucket holds, list_backups,
\* create_backup and delete_backup raise nothing and take the bucket to have
\* no records: the next backup of such a bucket gets number 1.
C17_BadMetadataIsEmptyBucket ==
    /\ [](~Raised(last))
    /\ [][(last'.op = "create" /\ disk.meta[today].exists
             /\ disk.meta[today].kind \in BadKinds) =>
            last'.ok /\ last'.n = 1]_vars

\* the commands and probes of a stop() that waited out its timeout and went on
\* to the quit command
Escalated == \E i \in DOMAIN srv.events : srv.events[i] \in {"quit_ok", "quit_failed"}

StopOver == srv.call = "stop" /\ srv.pc = "done"

\* C18: a stop() of a session that stays through the whole wait sends the stop
\* line once, polls until the timeout has run out, runs the quit command once
\* and then probes once more, and nothing else, before it returns.
C18_EscalationOnceThenProbe ==
    (StopOver /\ Escalated) =>
        \E q \in {"quit_ok", "quit_failed"}, p \in {"probe_yes", "probe_no"},
           r \in {"stop_true", "stop_false"} :
            srv.events = <<"probe_yes", "stuff_ok">>
                         \o [i \in 1..StopTimeout |-> "probe_yes"]
                         \o <<q, p, r>>

\* C19: a stop() that went on to the quit command returns False only if the
\* session is still there when the quit step is over.
C19_FailureOnlyIfStillPresent ==
    (StopOver /\ Escalated /\ srv.result = "false") => srv.present

\* C20: within restart(), start() is entered only straight after stop() has
\* returned True; after a stop() that returned False, restart() returns False
\* and neither start() nor a launch of the session has happened.
C20_StartOnlyAfterStopSucceeded ==
    srv.call = "restart" =>
        /\ \A i \in DOMAIN srv.events :
              srv.events[i] \in {"start", "launch_ok", "launch_failed"} =>
                  \E j \in 1..(i - 1) :
                      /\ srv.events[j] = "stop_true"
                      /\ srv.events[i] = "start" => j = i - 1
        /\ srv.stopped = "false" =>
              /\ srv.pc = "done"
              /\ srv.result = "false"
              /\ srv.events[Len(srv.events)] = "stop_false"

C20_Witness ==
    /\ srv.call = "restart"
    /\ srv.pc = "done"
    /\ srv.stopped = "false"
    /\ srv.present
    /\ Escalated

WatchOver == srv.call = "watch" /\ srv.pc = "done"

StartsThisTick ==
    Cardinality({i \in DOMAIN srv.events : srv.events[i] = "start"})

\* C21: the loop of watch() ends only by an interrupt; a start() that failed
\* does not end it.
C21_WatchEndsOnlyOnInterrupt == WatchOver => srv.interrupted

\* C22: in each turn of the loop of watch(), start() is invoked once when the
\* probe of that turn reported the session absent and not at all when it
\* reported it present, and a turn in which start() was invoked is followed by
\* another turn unless the loop is interrupted.
C22_StartOncePerAbsentTick ==
    (srv.call = "watch" /\ srv.events # <<>>) =>
        /\ srv.events[1] = "probe_yes" => StartsThisTick = 0
        /\ srv.events[1] = "probe_no" =>
              /\ StartsThisTick = 1
              /\ srv.events[2] = "start"
              /\ srv.pc = "done" => srv.interrupted

\* a scheduled backup has just ended in failure
BackupFails == sch.pc = "backing" /\ sch'.pc = "loop_top" /\ sch'.outcome = "failed"

\* the test of a turn of the loop is made
Decides == sch.pc = "decide" /\ sch'.pc # "decide"

\* C23: last_backup changes only when a backup succeeded, to the time of its
\* end; a failed backup leaves it as it was (0 if none succeeded yet), and the
\* test of the next turn, if the scheduler is still running, begins a backup.
C23_LastBackupOnSuccessOnly ==
    /\ [][BackupFails => sch'.last_backup = sch.last_backup]_vars
    /\ [][sch'.last_backup # sch.last_backup =>
            /\ sch.pc = "backing"
            /\ sch'.outcome = "ok"
            /\ sch'.last_backup = sch'.now]_vars
    /\ [][(Decides /\ sch.outcome = "failed" /\ sch.running) =>
            sch'.pc = "due"]_vars

C23_Witness ==
    /\ sch.pc = "backing"
    /\ ~sch.initial
    /\ sch.outcome = "failed"
    /\ sch.last_backup > 0
    /\ sch.interval > SlicesPerTick

\* C24: apart from the initial one, a backup is begun at the test of a turn
\* exactly when the scheduler is running and last_backup is None or at least
\* interval seconds old; so a backup that is not the initial one begins at
\* least interval seconds after the end of the last successful one.
C24_BackupWhenDue ==
    /\ [][Decides =>
            (sch'.pc = "due" <=>
                /\ sch.running
                /\ (sch.last_backup = 0
                    \/ sch.now - sch.last_backup >= sch.interval))]_vars
    /\ [][(sch'.pc = "backing" /\ sch.pc # "backing") =>
            (sch.pc = "due" \/ (sch.pc = "initial" /\ sch'.initial))]_vars
    /\ [][sch'.pc = "due" => sch.pc \in {"decide", "due"}]_vars
    /\ []((sch.pc = "backing" /\ ~sch.initial /\ sch.last_backup # 0) =>
            sch.began_at - sch.last_backup >= sch.interval)

C24_Witness ==
    /\ sch.pc = "backing"
    /\ ~sch.initial
    /\ sch.last_backup # 0
    /\ sch.outcome = "ok"
    /\ sch.began_at - sch.last_backup = sch.interval

\* C25: once a shutdown signal has been handled the loop comes to its end,
\* and the scheduler sleeps at most the one slice it was in when the signal
\* came.
C25_SignalEndsLoop ==
    /\ (sch.signalled ~> sch.pc = "exited")
    /\ [](sch.slept_after <= 1)

C25_Witness ==
    /\ sch.pc = "exited"
    /\ sch.signalled
    /\ sch.slept_after = 1
    /\ sch.slices < SlicesPerTick

\* C26 as stated: the loop ends with no archive half written, a backup that
\* is being written when the signal comes is not cut short, and no backup is
\* begun once the signal handler has cleared the running flag.
C26_NoBackupAfterSignal ==
    /\ [](sch.pc = "exited" => ~sch.writing)
    /\ [][(sch.writing /\ sch'.signalled /\ ~sch.signalled) => sch'.writing]_vars
    /\ [](~sch.begun_after)

\* C26: the loop ends with no archive half written, a backup that is being
\* written when the signal comes is not cut short, and a test of the loop made
\* once the signal handler has cleared the running flag begins no backup; the
\* initial backup, and a backup whose test was made before the signal, are
\* still begun.
C26_NoBackupDueAfterSignal ==
    /\ [](sch.pc = "exited" => ~sch.writing)
    /\ [][(sch.writing /\ sch'.signalled /\ ~sch.signalled) => sch'.writing]_vars
    /\ [][(Decides /\ sch.signalled) => sch'.pc = "loop_top"]_vars
    /\ [][(sch'.begun_after /\ ~sch.begun_after) =>
            sch.pc \in {"initial", "due"}]_vars

C26_Witness ==
    /\ sch.pc = "exited"
    /\ sch.begun_after
    /\ sch.outcome = "ok"

\* start() was called on its own and its probe reported the session present
StartFoundSession ==
    /\ srv.call = "start"
    /\ Len(srv.events) >= 2
    /\ srv.events[2] = "probe_yes"

\* C27: a start() whose probe reports the session present returns at once,
\* with False: it runs no launch and sends nothing, and the step leaves the
\* session as it is.
C27_StartOnRunningIsNoOp ==
    /\ [](StartFoundSession =>
            /\ srv.events = <<"start", "probe_yes">>
            /\ srv.pc = "done"
            /\ srv.result = "false"
            /\ srv.written = <<>>)
    /\ [][(srv.pc = "start_check" /\ StartFoundSession') =>
            srv'.present = srv.present]_vars

C27_Witness ==
    /\ StartFoundSession
    /\ srv.pc = "done"
    /\ srv.present
    /\ srv.jar

SendOver == srv.call = "send_command" /\ srv.pc = "done"

StuffsSent ==
    Cardinality({i \in DOMAIN srv.events :
                    srv.events[i] \in {"stuff_ok", "stuff_failed"}})

\* C28: send_command(text) returns False and writes nothing when the probe
\* reports no session; otherwise it runs the stuff command once, returns True
\* exactly when that command succeeded, and what is then written to the
\* session is the text followed by one newline, once.
C28_SendWritesTextOnce ==
    SendOver =>
        /\ srv.events[1] = "probe_no" =>
              (srv.result = "false" /\ srv.written = <<>> /\ StuffsSent = 0)
        /\ srv.events[1] = "probe_yes" =>
              /\ StuffsSent = 1
              /\ srv.result = "true" <=> srv.events[2] = "stuff_ok"
              /\ srv.result = "true" =>
                    srv.written = <<stuffed_verbatim(srv.text)>>
              /\ srv.result = "false" => srv.written = <<>>

\* an input of create_backup that fails a precondition
FailsPrecondition(backup_type, env) ==
    backup_type \notin BACKUP_TYPES \/ env = "no_server_dir"

\* C29: create_backup with an unknown type or without the server directory
\* fails and leaves the backup directory as it is, with no bucket, archive or
\* metadata added; start() without the server jar returns False and runs no
\* launch.
C29_PreconditionErrorsHaveNoEffect ==
    /\ [][last'.op = "create" =>
            \A in \in CreateInputs, e \in CreateEnvs :
                (FailsPrecondition(in[1], e)
                    /\ Step(create_backup(in[1], in[2], e))) =>
                        (disk' = disk /\ ~last'.ok /\ issued' = issued)]_vars
    /\ []((srv.call = "start" /\ ~srv.jar) =>
            /\ \A i \in DOMAIN srv.events :
                  srv.events[i] \notin {"launch_ok", "launch_failed"}
            /\ srv.pc = "done" => srv.result = "false")

C29_Witness ==
    /\ last.op = "create"
    /\ last.msg = "Server directory not found"
    /\ disk.dirs # {}
    /\ srv.call = "start"
    /\ srv.pc = "done"
    /\ ~srv.jar
    /\ srv.events = <<"start", "probe_no">>

\* C30: screen_exists(name) is true exactly when the listing has a session
\* whose name is the name asked for.
C30_ExistsIffExactName ==
    probe.called =>
        (probe.result <=> (probe.query = "ok" /\ probe.name \in probe.sessions))

\* C31: when the listing query fails, times out or prints nothing,
\* screen_exists answers False; it does not raise, and no call of it changes
\* the sessions.
C31_FailedQueryIsFalse ==
    /\ []((probe.called /\ probe.query # "ok") =>
            (~probe.result /\ ~probe.raised))
    /\ [][probe'.sessions = probe.sessions]_vars

C31_Witness ==
    /\ probe.called
    /\ probe.query = "timeout"
    /\ probe.name \in probe.sessions
    /\ ~probe.result

\* start() was called on its own from Stopped: its probe reported no session
\* and the server jar is there
StartFromStopped ==
    /\ srv.call = "start"
    /\ srv.jar
    /\ Len(srv.events) >= 2
    /\ srv.events[2] = "probe_no"

Launches ==
    {i \in DOMAIN srv.events : srv.events[i] \in {"launch_ok", "launch_failed"}}

\* the probes made after the launch that reported the session present
SeenAfterLaunch ==
    {i \in DOMAIN srv.events :
        srv.events[i] = "probe_yes" /\ \E j \in Launches : j < i}

ProbesAfterLaunch ==
    {i \in DOMAIN srv.events :
        srv.events[i] \in {"probe_yes", "probe_no"} /\ \E j \in Launches : j < i}

\* C32: a start() from Stopped runs the launch once, makes a bounded number of
\* probes after it and returns; it returns True only after a probe that
\* followed the launch reported the session, and False when the launch failed
\* or no such probe reported it before the time ran out.
C32_StartLaunchesOnceAndReturns ==
    /\ [](StartFromStopped =>
            /\ Cardinality(Launches) <= 1
            /\ srv.pc \in {"start_wait", "done"} => Cardinality(Launches) = 1
            /\ Cardinality(ProbesAfterLaunch) <= StartTimeout
            /\ srv.result = "true" =>
                  (SeenAfterLaunch # {} /\ srv.events[3] = "launch_ok")
            /\ (srv.pc = "done" /\ SeenAfterLaunch = {}) => srv.result = "false"
            /\ (srv.pc = "done" /\ srv.events[3] = "launch_failed") =>
                  srv.result = "false")
    /\ ((srv.call = "start" /\ srv.pc # "done") ~> srv.pc = "done")

C32_Witness ==
    /\ StartFromStopped
    /\ srv.pc = "done"
    /\ srv.result = "false"
    /\ srv.events[3] = "launch_ok"
    /\ Cardinality(ProbesAfterLaunch) = StartTimeout
    /\ srv.present

\* an attempt of the initial backup has been begun
InitialAttempted == (sch.pc = "backing" /\ sch.initial) \/ sch.outcome # "none"

\* C33: start() begins the initial backup at once: before any sleep slice is
\* begun and before any test of the interval the initial attempt has been
\* begun, and it is begun at the time start() was called.
C33_InitialBackupFirst ==
    /\ [](sch.pc \in {"loop_top", "sleeping", "slice", "decide", "due", "exited"}
            => sch.outcome # "none")
    /\ []((sch.slices > 0 \/ sch.now > 1) => InitialAttempted)
    /\ []((sch.pc = "backing" /\ sch.initial) =>
            (sch.began_at = 1 /\ sch.outcome = "none"))
    /\ [][sch.pc = "new" => sch'.pc = "initial"]_vars
    /\ [][sch.pc = "initial" => (sch'.pc = "backing" \/ sch'.pc = "initial")]_vars

C33_Witness ==
    /\ sch.pc = "sleeping"
    /\ sch.slices = 0
    /\ sch.outcome = "failed"
    /\ sch.last_backup = 0
    /\ sch.running

\* C34: no backup is begun while another is being written, and the test of
\* the interval is made only when no backup is being written.
C34_BackupsNeverOverlap ==
    /\ [](~sch.overlap)
    /\ [](sch.pc \in {"decide", "due", "initial"} => ~sch.writing)
    /\ [][(sch'.writing /\ ~sch.writing) => sch'.pc = "backing"]_vars
    /\ [][(sch.pc = "backing" /\ sch'.pc # "backing") => ~sch'.writing]_vars

C34_Witness ==
    /\ sch.pc = "backing"
    /\ ~sch.initial
    /\ sch.outcome = "failed"
    /\ sch.began_at > 1

DistinctFilenames(dk, d) ==
    LET recs == Records(dk, d)
    IN  \A i, j \in 1..Len(recs) :
            recs[i].filename = recs[j].filename => i = j

\* C38: create_backup, with or without custom_name and whether it succeeds
\* or fails, leaves in place every archive of today's bucket that a record
\* refers to, and the records of a bucket always have pairwise distinct
\* filenames.
C38_CreateKeepsRecordedArchives ==
    /\ [](\A d \in Days : DistinctFilenames(disk, d))
    /\ [][last'.op = "create" =>
            \A i \in 1..Len(Records(disk, today)) :
                LET f == Records(disk, today)[i].filename
                IN  f \in disk.zips[today] => f \in disk'.zips[today]]_vars

\* the backup that create_backup has just reported: its archive is in
\* today's bucket and list_backups() shows its record
ReportedBackupKept(dk, d, n) ==
    \E i \in 1..Len(list_backups(dk)) :
        LET b == list_backups(dk)[i]
        IN  /\ b.date = d
            /\ b.info.number = n
            /\ b.info.filename \in dk.zips[d]

\* C39: when create_backup returns a path and retention >= 1, the bucket of
\* the backup just made has survived the cleanup pass that ends the call: the
\* archive exists and list_backups() shows its record.
C39_CreatedBackupSurvivesCleanup ==
    [][(last'.op = "create" /\ last'.ok /\ retention >= 1) =>
          /\ today \in disk'.dirs
          /\ ReportedBackupKept(disk', today, last'.n)]_vars

\* a create_backup call that has read its number and has not yet saved its
\* record
InFlight(c) == jobs[c].pc \in {"write", "load", "save"}

\* the records of today's bucket that name the archive of caller c
RecordsOf(c) ==
    {i \in 1..Len(Records(disk, today)) :
        Records(disk, today)[i].filename = jobs[c].filename}

\* C36: two create_backup calls on one bucket are not serialized: a call that
\* reads its number while the other has read its own and not yet saved its
\* record reads the same number, and every record carries the number its
\* call read, so both records carry the same sequence number.
C36_SameNumberRead ==
    /\ [][\A c, o \in Callers :
            (c # o /\ jobs[c].pc = "idle" /\ jobs'[c].pc = "write"
                   /\ InFlight(o))
                => jobs'[c].number = jobs[o].number]_vars
    /\ [](\A c \in Callers : \A i \in RecordsOf(c) :
            jobs[c].pc \in {"cleanup", "done"} =>
                Records(disk, today)[i].number = jobs[c].number)

\* both calls reported success and the bucket holds two records with one
\* sequence number
C36_Witness ==
    /\ \A c \in Callers : jobs[c].pc = "done" /\ jobs[c].result = "ok"
    /\ \E i, j \in 1..Len(Records(disk, today)) :
          /\ i # j
          /\ Records(disk, today)[i].number = Records(disk, today)[j].number
          /\ Records(disk, today)[i].filename = jobs["manual"].filename
          /\ Records(disk, today)[j].filename = jobs["scheduler"].filename

\* C37: after two create_backup calls on one bucket that overlap in time,
\* the metadata holds a record for every call that reported success.
C37_NoRecordLost ==
    \A c \in Callers :
        (jobs[c].pc = "done" /\ jobs[c].result = "ok") => RecordsOf(c) # {}

\* C40: at most one detached session with the configured name exists at any
\* time, also when two start() calls run at the same time: the launch of a
\* start() never adds a session to one that exists.
C40_AtMostOneSession ==
    /\ [](twin.sessions <= 1)
    /\ [][twin'.sessions > twin.sessions => twin.sessions = 0]_vars

====
